---- MODULE Spec2Model ----
(***************************************************************************)
(* Model of the rate retrieval / caching core (app/services/rate_service)  *)
(* and of the conversion engine (app/services/conversion_service) of the   *)
(* currency exchange API.                                                  *)
(*                                                                         *)
(* A call of a service method is one action: the whole handler, with every *)
(* store access it makes.  The outcome of the call (value returned or      *)
(* exception raised) and the I/O it performed are kept in the variable     *)
(* `last`; `prev` keeps the outcome of the _get_rates call before it.      *)
(***************************************************************************)
EXTENDS Integers, Sequences, FiniteSets, TLC

----------------------------------------------------------------------------
(* Bounds of the model                                                     *)

\* the clock advances MaxTicks times at most
MaxTicks ==
  2

\* seconds per clock step
TickStep ==
  1800

\* rows of exchange_rates written by other writers than this service
MaxSnapshots ==
  2

\* rows of transactions
MaxTransactions ==
  2

\* decimals handed to quantize: 0.000 .. MaxThousandths / 1000
MaxThousandths ==
  2400

\* coroutines of _get_rates running on the event loop at once
MaxTasks ==
  2

----------------------------------------------------------------------------
(* Configuration: app/core/config.py                                       *)

EXCHANGE_RATE_API_BASE_CURRENCY ==
  "EUR"

ECHANGE_RATE_CACHE_TTL ==
  3600

SUPPORTED_CURRENCIES ==
  {"USD", "EUR", "GBP", "JPY", "AUD", "CAD", "CHF", "CNY", "SEK", "NZD", "BRL"}

HTTPStatus_OK ==
  200

----------------------------------------------------------------------------
(* Python values.  A number c * 10^e is kept as the pair (c, e), tagged    *)
(* with the type that holds it: a JSON float, its str() text, a Decimal.   *)

None ==
  [t |-> "None"]

Float(c, e) ==
  [t |-> "float", c |-> c, e |-> e]

Decimal(c, e) ==
  [t |-> "Decimal", c |-> c, e |-> e]

\* str(rate) of a float whose shortest repr is c * 10^e, and str(Decimal)
str(x) ==
  [t |-> "str", c |-> x.c, e |-> x.e]

\* Decimal("<text>")
DecimalOf(s) ==
  [t |-> "Decimal", c |-> s.c, e |-> s.e]

Dict(f) ==
  [t |-> "dict", items |-> f]

Coroutine(name) ==
  [t |-> "coroutine", name |-> name]

\* truth value of `if x:` for None and for a dict
Truthy(v) ==
  v.t = "dict" /\ DOMAIN v.items # {}

RECURSIVE Pow10(_)
Pow10(n) ==
  IF n <= 0 THEN 1 ELSE 10 * Pow10(n - 1)

\* amount < Decimal("0"), the strict comparison: a zero amount passes it
DecLtZero(d) ==
  d.c < 0

\* amount <= Decimal("0")
DecLeZero(d) ==
  d.c <= 0

----------------------------------------------------------------------------
(* Outcomes of a call: a value returned or an exception raised.            *)

NoCause ==
  ""

Return(v) ==
  [kind |-> "return", value |-> v, exc |-> "", msg |-> <<>>, code |-> "",
   amount |-> {}, status_code |-> 0, cause |-> NoCause]

Raise(exc, msg, status_code) ==
  [kind |-> "raise", value |-> None, exc |-> exc, msg |-> msg, code |-> "",
   amount |-> {}, status_code |-> status_code, cause |-> NoCause]

\* app/core/exceptions.py
InvalidCurrencyError(currency_code) ==
  [Raise("InvalidCurrencyError", <<"Invalid currency code: ", currency_code>>, 400)
     EXCEPT !.code = currency_code]

ExternalAPIError(message) ==
  Raise("ExternalAPIError", message, 503)

InvalidAmountError(amount) ==
  [Raise("InvalidAmountError", <<"Invalid amount: ">>, 400)
     EXCEPT !.amount = {amount}]

\* raised by Python when an object has no attribute of that name
AttributeError(type, name) ==
  Raise("AttributeError",
        <<"'", type, "' object has no attribute '", name, "'">>, 0)

\* raised by Python when a coroutine object is subscripted
TypeError_NotSubscriptable ==
  Raise("TypeError", <<"'coroutine' object is not subscriptable">>, 0)

\* raised by the session when the database refuses a statement
SQLAlchemyError ==
  Raise("SQLAlchemyError", <<"database error">>, 0)

----------------------------------------------------------------------------
(* Names the classes define.                                               *)

\* attributes of a RateService object: its methods and what __init__ sets
RateServiceAttrs ==
  {"__init__", "get_exchange_rate", "_get_rates", "_fecth_from_external_api",
   "_save_rates_to_db", "_get_rates_from_db",
   "base_url", "api_key", "base_currency", "ttl", "cache"}

\* attributes of an ExchangeRate row object
ExchangeRateAttrs ==
  {"__tablename__", "id", "base_currency", "rates", "last_updated"}

----------------------------------------------------------------------------
(* The rate provider (an HTTP endpoint) and what it may answer.            *)

\* the body of tests/conftest.py's mock_rates_response
RatesResponse ==
  ("USD" :> Float(118, -2)) @@ ("JPY" :> Float(12955, -2)) @@
  ("BRL" :> Float(635, -2)) @@ ("EUR" :> Float(10, -1))

\* another day's table
RatesResponse2 ==
  ("USD" :> Float(125, -2)) @@ ("JPY" :> Float(13002, -2)) @@
  ("EUR" :> Float(10, -1))

ProviderTables ==
  {RatesResponse, RatesResponse2}

NoBody ==
  <<>>

\* what a GET of the provider yields: a transport failure, or a response
ProviderStates ==
  {[net |-> "ok", status_code |-> 200, has_rates |-> TRUE, rates |-> r] :
      r \in ProviderTables}
  \cup {[net |-> "ok", status_code |-> 500, has_rates |-> FALSE, rates |-> NoBody],
        [net |-> "ok", status_code |-> 200, has_rates |-> FALSE, rates |-> NoBody],
        [net |-> "ConnectError", status_code |-> 0, has_rates |-> FALSE, rates |-> NoBody],
        [net |-> "TimeoutException", status_code |-> 0, has_rates |-> FALSE, rates |-> NoBody]}

----------------------------------------------------------------------------
(* State                                                                   *)

VARIABLES
  cache,            \* RateService.cache: base currency -> {rates, expires_at}
  now,              \* datetime.now(UTC), in seconds
  exchange_rates,   \* table exchange_rates: the persisted snapshots
  transactions,     \* table transactions
  last,             \* the last call of a service method and its outcome
  prev,             \* the _get_rates call that came before the last one
  tasks             \* the _get_rates coroutines gathered on the event loop

vars ==
  <<cache, now, exchange_rates, transactions, last, prev, tasks>>

\* RateService.__init__: self.base_currency, self.ttl
base_currency ==
  EXCHANGE_RATE_API_BASE_CURRENCY

ttl ==
  ECHANGE_RATE_CACHE_TTL

EmptyCache ==
  <<>>

----------------------------------------------------------------------------
(* RateService._fecth_from_external_api, lines 135-157.  The result says    *)
(* how many requests the provider received.                                *)

Called(result, http) ==
  [result |-> result, http |-> http]

_fecth_from_external_api(p) ==
  IF p.net # "ok"
    THEN Called(Raise(p.net, <<"httpx: ", p.net>>, 0), 1)
  ELSE IF p.status_code # HTTPStatus_OK
    THEN Called(ExternalAPIError(<<"API return status code ",
                                   ToString(p.status_code)>>), 1)
  ELSE IF ~p.has_rates
    THEN Called(ExternalAPIError(<<"Invalid response from exchange rate API">>), 1)
  ELSE Called(Return(Dict([cur \in DOMAIN p.rates |->
                             DecimalOf(str(p.rates[cur]))])), 1)

\* the methods a RateService object has under each name that _get_rates
\* may look up to fetch the rates
FetchMethods(p) ==
  [name \in {"_fecth_from_external_api"} |-> _fecth_from_external_api(p)]

\* the await of line 104 with a timeout swallowed inside the fetch: a
\* provider that times out makes the fetch return an empty table
Await_fetch_TimeoutAsEmpty(p) ==
  IF p.net = "TimeoutException"
    THEN Called(Return(Dict(<<>>)), 1)
    ELSE Called(AttributeError("RateService", "_fetch_from_external_api"), 0)

\* `await self._fetch_from_external_api()`, line 104: the attribute is
\* looked up on the object, and the method found is called
Await_fetch_from_external_api(p) ==
  IF "_fetch_from_external_api" \in DOMAIN FetchMethods(p)
    THEN FetchMethods(p)["_fetch_from_external_api"]
    ELSE Called(AttributeError("RateService", "_fetch_from_external_api"), 0)

----------------------------------------------------------------------------
(* The session: db.add + db.commit, db.query                              *)

\* a row of exchange_rates
ExchangeRate(id, base, str_rates, last_updated) ==
  [id |-> id, base_currency |-> base, rates |-> str_rates,
   last_updated |-> last_updated]

NextId(rows) ==
  Len(rows) + 1

\* RateService._save_rates_to_db, lines 160-181: the rows afterwards.
\* commit_ok says whether the database accepts the commit; when it does not
\* the exception is logged and the session rolled back.
_save_rates_to_db(rows, rates, t, commit_ok) ==
  LET str_rates == [cur \in DOMAIN rates.items |-> str(rates.items[cur])]
      exchange_rate == ExchangeRate(NextId(rows), base_currency, str_rates, t)
  IN  IF commit_ok THEN Append(rows, exchange_rate) ELSE rows

\* .filter(base_currency == self.base_currency)
\* .order_by(last_updated.desc()).first(): the rows that may come first
\* (rows of equal last_updated come in an order SQL leaves open)
FirstRows(rows) ==
  LET match == {i \in 1..Len(rows) : rows[i].base_currency = base_currency}
  IN  {i \in match : \A j \in match : rows[j].last_updated <= rows[i].last_updated}

\* the choices of the database for one query: the index of the first row,
\* or 0 when no row matches
QueryChoices(rows) ==
  IF FirstRows(rows) = {} THEN {0} ELSE FirstRows(rows)

\* `exchange_rate.items()`, line 206: the attribute is looked up on the row
ExchangeRate_items(row) ==
  IF "items" \in ExchangeRateAttrs
    THEN Return(Dict(row.rates))
    ELSE AttributeError("ExchangeRate", "items")

\* RateService._get_rates_from_db, lines 184-210: the value returned.
\* query_ok says whether the database answers the query; first is the index
\* of the row the query yields, 0 for none.
_get_rates_from_db(rows, query_ok, first) ==
  IF ~query_ok
    THEN None                        \* except Exception: logged
  ELSE IF first = 0
    THEN None                        \* `if exchange_rate:` is false
  ELSE LET items == ExchangeRate_items(rows[first])
       IN  IF items.kind = "raise"
             THEN None               \* except Exception: logged
             ELSE Dict([cur \in DOMAIN items.value.items |->
                          DecimalOf(items.value.items[cur])])

----------------------------------------------------------------------------
(* RateService._get_rates, lines 86-132.  The effect of a call: its         *)
(* outcome, the cache and the rows afterwards, and the I/O it made.        *)

Effect(result, c, rows, http, reads, writes) ==
  [result |-> result, cache |-> c, exchange_rates |-> rows,
   http |-> http, reads |-> reads, writes |-> writes]

\* _get_rates with the try/except of _get_rates_from_db (lines 193, 208-210)
\* taken away: a query that fails raises through the fallback
_get_rates_StoreUnguarded(c, t, p, rows, commit_ok, query_ok, first) ==
  IF base_currency \in DOMAIN c /\ t < c[base_currency].expires_at
    THEN Effect(Return(c[base_currency].rates), c, rows, 0, 0, 0)
  ELSE LET f == Await_fetch_from_external_api(p)
       IN  IF f.result.kind = "raise"
             THEN IF base_currency \in DOMAIN c
                    THEN Effect(Return(c[base_currency].rates), c, rows, f.http, 0, 0)
                  ELSE IF ~query_ok
                    THEN Effect(SQLAlchemyError, c, rows, f.http, 1, 0)
                  ELSE LET db_rates == _get_rates_from_db(rows, query_ok, first)
                       IN  IF Truthy(db_rates)
                             THEN Effect(Return(db_rates), c, rows, f.http, 1, 0)
                             ELSE Effect([ExternalAPIError(
                                             <<"Failed to get exchange rates:">>
                                               \o f.result.msg)
                                            EXCEPT !.cause = f.result.exc],
                                         c, rows, f.http, 1, 0)
             ELSE Effect(Return(f.result.value),
                         (base_currency :>
                            [rates |-> f.result.value,
                             expires_at |-> t + ttl]) @@ c,
                         _save_rates_to_db(rows, f.result.value, t, commit_ok),
                         f.http, 0, 1)

_get_rates(c, t, p, rows, commit_ok, query_ok, first) ==
  IF base_currency \in DOMAIN c /\ t < c[base_currency].expires_at
    THEN Effect(Return(c[base_currency].rates), c, rows, 0, 0, 0)
  ELSE LET f == Await_fetch_from_external_api(p)
       IN  IF f.result.kind = "raise"
             THEN IF base_currency \in DOMAIN c
                    THEN Effect(Return(c[base_currency].rates), c, rows, f.http, 0, 0)
                  ELSE LET db_rates == _get_rates_from_db(rows, query_ok, first)
                       IN  IF Truthy(db_rates)
                             THEN Effect(Return(db_rates), c, rows, f.http, 1, 0)
                             ELSE Effect([ExternalAPIError(
                                             <<"Failed to get exchange rates:">>
                                               \o f.result.msg)
                                            EXCEPT !.cause = f.result.exc],
                                         c, rows, f.http, 1, 0)
             ELSE Effect(Return(f.result.value),
                         (base_currency :>
                            [rates |-> f.result.value,
                             expires_at |-> t + ttl]) @@ c,
                         _save_rates_to_db(rows, f.result.value, t, commit_ok),
                         f.http, 0, 1)

----------------------------------------------------------------------------
(* Decimal arithmetic of the default context (ROUND_HALF_EVEN), on         *)
(* non-negative numbers.                                                   *)

Bool(b) ==
  [t |-> "bool", b |-> b]

\* d.quantize(Decimal("1e-<places>"))
quantize(d, places) ==
  IF d.e >= -places
    THEN Decimal(d.c * Pow10(d.e + places), -places)
    ELSE LET k == -places - d.e
             q == d.c \div Pow10(k)
             r == d.c % Pow10(k)
             half == 5 * Pow10(k - 1)
             up == r > half \/ (r = half /\ q % 2 = 1)
         IN  Decimal(IF up THEN q + 1 ELSE q, -places)

\* a * b
DecimalMul(a, b) ==
  Decimal(a.c * b.c, a.e + b.e)

\* getcontext().prec, line 25
prec ==
  15

\* the least shift with num * 10^shift \div den of prec digits
RECURSIVE DivShift(_, _, _)
DivShift(num, den, shift) ==
  IF num \div den >= Pow10(prec - 1)
    THEN shift
    ELSE DivShift(num * 10, den, shift + 1)

\* a / b, rounded half-even to prec significant digits; b is not zero
DecimalDiv(a, b) ==
  IF a.c = 0 THEN Decimal(0, a.e - b.e)
  ELSE LET shift == DivShift(a.c, b.c, 0)
           num == a.c * Pow10(shift)
           q == num \div b.c
           r == num % b.c
           up == 2 * r > b.c \/ (2 * r = b.c /\ q % 2 = 1)
       IN  Decimal(IF up THEN q + 1 ELSE q, a.e - b.e - shift)

DivisionByZero ==
  Raise("DivisionByZero", <<"[<class 'decimal.DivisionByZero'>]">>, 0)

KeyError(key) ==
  Raise("KeyError", <<key>>, 0)

\* obj[key]
Subscript(obj, key) ==
  IF obj.t # "dict" THEN TypeError_NotSubscriptable
  ELSE IF key \notin DOMAIN obj.items THEN KeyError(key)
  ELSE Return(obj.items[key])

\* x / y of two evaluated operands, the left one first
Divide(x, y) ==
  IF x.kind = "raise" THEN x
  ELSE IF y.kind = "raise" THEN y
  ELSE IF y.value.c = 0 THEN DivisionByZero
  ELSE Return(DecimalDiv(x.value, y.value))

----------------------------------------------------------------------------
(* RateService.get_exchange_rate, lines 47-83                              *)

\* `self.is_valid_currency(currency)`, line 64: the attribute is looked up
\* on the object.  The class defines no method of that name; a method of
\* that name would decide what the docstring (line 59) calls "supported".
is_valid_currency(currency) ==
  IF "is_valid_currency" \in RateServiceAttrs
    THEN Return(Bool(currency \in SUPPORTED_CURRENCIES))
    ELSE AttributeError("RateService", "is_valid_currency")

\* lines 63-65: the first exception of the loop over [from, to], if any
ValidateCurrencies(from_currency, to_currency) ==
  LET v1 == is_valid_currency(from_currency)
      v2 == is_valid_currency(to_currency)
  IN  IF v1.kind = "raise" THEN v1
      ELSE IF ~v1.value.b THEN InvalidCurrencyError(from_currency)
      ELSE IF v2.kind = "raise" THEN v2
      ELSE IF ~v2.value.b THEN InvalidCurrencyError(to_currency)
      ELSE Return(None)

\* lines 71-83: `rates = self._get_rates(db)` is the coroutine object of an
\* async method that is not awaited; its body does not run
CrossRate(from_currency, to_currency) ==
  LET rates == Coroutine("_get_rates")
      rate ==
        IF from_currency = base_currency
          THEN Subscript(rates, to_currency)
        ELSE IF to_currency = base_currency
          THEN Divide(Return(Decimal(1, 0)), Subscript(rates, from_currency))
        ELSE Divide(Subscript(rates, to_currency), Subscript(rates, from_currency))
  IN  IF rate.kind = "raise" THEN rate
      ELSE Return(quantize(rate.value, 9))

get_exchange_rate(from_currency, to_currency) ==
  LET v == ValidateCurrencies(from_currency, to_currency)
  IN  IF v.kind = "raise" THEN v
      ELSE IF from_currency = to_currency THEN Return(Decimal(1, 0))
      ELSE CrossRate(from_currency, to_currency)

----------------------------------------------------------------------------
(* ConversionService.convert_currency, lines 21-85.  The effect of a call: *)
(* its outcome, the rows of transactions afterwards, the calls of the rate *)
(* service and the commits it made.                                        *)

Transaction(id, user_id, from_currency, to_currency, amount, converted_amount, exchange_rate, timestamp) ==
  [id |-> id, user_id |-> user_id, source_currency |-> from_currency,
   target_currency |-> to_currency, source_amount |-> amount,
   target_amount |-> converted_amount, exchange_rate |-> exchange_rate,
   timestamp |-> timestamp]

ConversionResult(transaction) ==
  [t |-> "dict",
   items |-> [transaction_id |-> transaction.id,
              user_id |-> transaction.user_id,
              from |-> [currency |-> transaction.source_currency,
                        amount |-> transaction.source_amount],
              to |-> [currency |-> transaction.target_currency,
                      amount |-> transaction.target_amount],
              rate |-> transaction.exchange_rate,
              timestamp |-> transaction.timestamp]]

Converted(result, rows, lookups, writes) ==
  [result |-> result, transactions |-> rows, lookups |-> lookups,
   writes |-> writes]

\* convert_currency with the rate lookup of lines 50-53 moved before the
\* amount check of lines 46-48
convert_currency_RateFirst(user_id, from_currency, to_currency, amount, rows, t, commit_ok) ==
  LET got == get_exchange_rate(from_currency, to_currency)
  IN  IF got.kind = "raise"
        THEN Converted(got, rows, 1, 0)
      ELSE IF DecLeZero(amount)
        THEN Converted(InvalidAmountError(amount), rows, 1, 0)
      ELSE LET exchange_rate == quantize(got.value, 2)
               converted_amount ==
                 quantize(DecimalMul(amount, exchange_rate), 2)
               transaction ==
                 Transaction(NextId(rows), user_id, from_currency,
                             to_currency, amount, converted_amount,
                             exchange_rate, t)
           IN  IF commit_ok
                 THEN Converted(Return(ConversionResult(transaction)),
                                Append(rows, transaction), 1, 1)
                 ELSE Converted(SQLAlchemyError, rows, 1, 1)

\* convert_currency with the db.add/db.commit of lines 73-74 moved before the
\* rate lookup of line 51: a call whose lookup fails leaves a row behind
convert_currency_SaveFirst(user_id, from_currency, to_currency, amount, rows, t, commit_ok) ==
  IF DecLeZero(amount)
    THEN Converted(InvalidAmountError(amount), rows, 0, 0)
  ELSE LET got == get_exchange_rate(from_currency, to_currency)
           transaction ==
             Transaction(NextId(rows), user_id, from_currency, to_currency,
                         amount, amount, Decimal(1, 0), t)
       IN  IF got.kind = "raise" /\ commit_ok
             THEN Converted(got, Append(rows, transaction), 1, 1)
             ELSE Converted(got, rows, 1, 1)

convert_currency(user_id, from_currency, to_currency, amount, rows, t, commit_ok) ==
  IF DecLeZero(amount)
    THEN Converted(InvalidAmountError(amount), rows, 0, 0)
  ELSE LET got == get_exchange_rate(from_currency, to_currency)
       IN  IF got.kind = "raise"
             THEN Converted(got, rows, 1, 0)
           ELSE LET exchange_rate == quantize(got.value, 2)
                    converted_amount ==
                      quantize(DecimalMul(amount, exchange_rate), 2)
                    transaction ==
                      Transaction(NextId(rows), user_id, from_currency,
                                  to_currency, amount, converted_amount,
                                  exchange_rate, t)
                IN  IF commit_ok
                      THEN Converted(Return(ConversionResult(transaction)),
                                     Append(rows, transaction), 1, 1)
                      ELSE Converted(SQLAlchemyError, rows, 1, 1)

----------------------------------------------------------------------------
(* Inputs of the calls                                                     *)

\* currency codes passed by callers: three supported ones, one that is not
Codes ==
  {"EUR", "USD", "JPY", "XXX"}

\* amounts passed by callers: Decimal("-100.00"), Decimal("0.00"),
\* Decimal("100.00")
Amounts ==
  {Decimal(-10000, -2), Decimal(0, -2), Decimal(10000, -2)}

Users ==
  {"test_user"}

\* rate tables other writers persist, as the JSON column holds them
\* (tests/app/services/test_rate_service.py, lines 106-110)
StoredRates ==
  {[cur \in DOMAIN RatesResponse |-> str(RatesResponse[cur])]}

\* base currencies of the rows other writers persist
StoredBases ==
  {"EUR", "USD"}

----------------------------------------------------------------------------
(* The record of a call: its arguments, what the environment answered      *)
(* during it (the provider's answer p, whether the database accepted       *)
(* statements), its outcome and the I/O it made.                           *)

IO(http, reads, writes, lookups, c, rows) ==
  [http |-> http, reads |-> reads, writes |-> writes, lookups |-> lookups,
   cache |-> c, transactions |-> rows]

Call(op, user_id, from_currency, to_currency, amount, p, db_up, result, io, first) ==
  [op |-> op, user |-> user_id, from |-> from_currency, to |-> to_currency,
   amount |-> amount, result |-> result,
   http |-> io.http, reads |-> io.reads, writes |-> io.writes,
   lookups |-> io.lookups,
   at |-> IF op = "_get_rates" THEN now ELSE 0,
   provider |-> p, db_up |-> db_up, first |-> first,
   candidates |-> FirstRows(exchange_rates),
   cache_before |-> cache, cache_after |-> io.cache,
   tx_before |-> transactions, tx_after |-> io.transactions]

NoCall ==
  [op |-> "none"]

\* the provider is up and serves a body with a rates field
Serving(p) ==
  p.net = "ok" /\ p.status_code = HTTPStatus_OK /\ p.has_rates

\* what is kept of the call before the last call, when it was a _get_rates
\* call made while the provider was serving
Kept(call) ==
  IF call.op = "_get_rates" /\ Serving(call.provider)
    THEN [op |-> call.op, at |-> call.at, provider |-> call.provider,
          cache_before |-> call.cache_before]
    ELSE NoCall

----------------------------------------------------------------------------
(* Coroutines of _get_rates on one event loop                              *)

Tasks ==
  1..MaxTasks

\* a coroutine object that has not run yet
Created ==
  [pc |-> "created"]

\* a coroutine that ran to its end: what it met and what it gave
Done(p, db_up, e, c, seq) ==
  [pc |-> "done", provider |-> p, db_up |-> db_up, result |-> e.result,
   http |-> e.http, cache_before |-> c, cache_after |-> e.cache, seq |-> seq]

Finished(ts) ==
  {t \in DOMAIN ts : ts[t].pc = "done"}

----------------------------------------------------------------------------
(* Initial state: a new RateService (__init__, lines 32-45), empty tables  *)

Init ==
  /\ cache = EmptyCache
  /\ now = 0
  /\ exchange_rates = <<>>
  /\ transactions = <<>>
  /\ last = NoCall
  /\ prev = NoCall
  /\ tasks = [t \in Tasks |-> Created]

----------------------------------------------------------------------------
(* Calls of the service methods                                            *)

\* await rate_service._get_rates(db), with the provider answering p and the
\* database up or down
GetRates ==
  \E p \in ProviderStates, db_up \in BOOLEAN,
     first \in QueryChoices(exchange_rates) :
    LET e == _get_rates(cache, now, p, exchange_rates, db_up, db_up, first)
    IN  /\ Len(e.exchange_rates) <= MaxSnapshots
        /\ cache' = e.cache
        /\ exchange_rates' = e.exchange_rates
        /\ last' = Call("_get_rates", "", "", "", {}, p, db_up, e.result,
                        IO(e.http, e.reads, e.writes, 0, e.cache, transactions),
                        IF e.reads = 0 \/ ~db_up THEN 0 ELSE first)
        /\ prev' = Kept(last)
        /\ UNCHANGED <<tasks, now, transactions>>

\* the same call, the whole call before it kept for comparison
GetRatesAgain ==
  \E p \in ProviderStates, db_up \in BOOLEAN,
     first \in QueryChoices(exchange_rates) :
    LET e == _get_rates(cache, now, p, exchange_rates, db_up, db_up, first)
    IN  /\ Len(e.exchange_rates) <= MaxSnapshots
        /\ cache' = e.cache
        /\ exchange_rates' = e.exchange_rates
        /\ last' = Call("_get_rates", "", "", "", {}, p, db_up, e.result,
                        IO(e.http, e.reads, e.writes, 0, e.cache, transactions),
                        IF e.reads = 0 \/ ~db_up THEN 0 ELSE first)
        /\ prev' = last
        /\ UNCHANGED <<tasks, now, transactions>>

\* await rate_service.get_exchange_rate(from_currency, to_currency, db),
\* with the provider ready to answer p
GetExchangeRate ==
  \E from_currency \in Codes, to_currency \in Codes, p \in ProviderStates :
    /\ last' = Call("get_exchange_rate", "", from_currency, to_currency, {},
                    p, TRUE,
                    get_exchange_rate(from_currency, to_currency),
                    IO(0, 0, 0, 0, cache, transactions), 0)
    /\ prev' = Kept(last)
    /\ UNCHANGED <<tasks, cache, now, exchange_rates, transactions>>

\* await conversion_service.convert_currency(user_id, from_currency,
\*                                           to_currency, amount, db),
\* with the provider ready to answer p and the database up or down
ConvertCurrency ==
  \E user_id \in Users, from_currency \in Codes, to_currency \in Codes,
     amount \in Amounts, p \in ProviderStates, db_up \in BOOLEAN :
    LET e == convert_currency(user_id, from_currency, to_currency, amount,
                              transactions, now, db_up)
    IN  /\ Len(e.transactions) <= MaxTransactions
        /\ transactions' = e.transactions
        /\ last' = Call("convert_currency", user_id, from_currency, to_currency,
                        {amount}, p, db_up, e.result,
                        IO(0, 0, e.writes, e.lookups, cache, e.transactions), 0)
        /\ prev' = Kept(last)
        /\ UNCHANGED <<tasks, cache, now, exchange_rates>>

\* the event loop runs the coroutine _get_rates(db) of task t.  The only
\* await of the method is `await self._fetch_from_external_api()` (line
\* 104), whose attribute lookup raises before anything is awaited, and the
\* except branch (lines 105-121) awaits nothing: the coroutine never yields
\* to the loop and runs from its start to its end in one step.
RunTask(t) ==
  \E p \in ProviderStates, db_up \in BOOLEAN,
     first \in QueryChoices(exchange_rates) :
    LET e == _get_rates(cache, now, p, exchange_rates, db_up, db_up, first)
    IN  /\ tasks[t].pc = "created"
        /\ Len(e.exchange_rates) <= MaxSnapshots
        /\ cache' = e.cache
        /\ exchange_rates' = e.exchange_rates
        /\ tasks' = [tasks EXCEPT
                       ![t] = Done(p, db_up, e, cache,
                                   Cardinality(Finished(tasks)) + 1)]
        /\ UNCHANGED <<now, transactions, last, prev>>

\* await asyncio.gather(...) of the coroutines
Gather ==
  \E t \in Tasks : RunTask(t)

\* the tables a caller hands to _save_rates_to_db: currency -> Decimal, as
\* _fecth_from_external_api builds them
RateTables ==
  {_fecth_from_external_api(p).result.value :
     p \in {q \in ProviderStates : Serving(q)}}

\* rate_service._save_rates_to_db(db, rates), with the database accepting
\* the commit or refusing it
SaveRates ==
  \E rates \in RateTables, commit_ok \in BOOLEAN :
    LET rows == _save_rates_to_db(exchange_rates, rates, now, commit_ok)
    IN  /\ Len(rows) <= MaxSnapshots
        /\ exchange_rates' = rows
        /\ last' = [op |-> "_save_rates_to_db", rates |-> rates,
                    db_up |-> commit_ok, at |-> now, rows |-> rows]
        /\ prev' = NoCall
        /\ UNCHANGED <<tasks, cache, now, transactions>>

\* rate_service._get_rates_from_db(db), with the database answering the
\* query or failing it
LoadRates ==
  \E query_ok \in BOOLEAN, first \in QueryChoices(exchange_rates) :
    /\ last' = [op |-> "_get_rates_from_db", db_up |-> query_ok,
                first |-> IF query_ok THEN first ELSE 0,
                rows |-> exchange_rates,
                result |-> _get_rates_from_db(exchange_rates, query_ok, first)]
    /\ prev' = IF last.op = "_save_rates_to_db" /\ last.rows = exchange_rates
                 THEN last ELSE NoCall
    /\ UNCHANGED <<tasks, cache, now, exchange_rates, transactions>>

\* RateService(): a new service object, as a restart of the process makes
Restart ==
  /\ last # NoCall \/ cache # EmptyCache
  /\ cache' = EmptyCache
  /\ last' = NoCall
  /\ prev' = NoCall
  /\ UNCHANGED <<tasks, now, exchange_rates, transactions>>

----------------------------------------------------------------------------
(* The environment                                                         *)

\* time passes
Tick ==
  /\ now < MaxTicks * TickStep
  /\ now' = now + TickStep
  /\ UNCHANGED <<tasks, cache, exchange_rates, transactions, last, prev>>

\* another writer persists a snapshot
SeedSnapshot ==
  /\ Len(exchange_rates) < MaxSnapshots
  /\ \E base \in StoredBases, r \in StoredRates :
       exchange_rates' =
         Append(exchange_rates, ExchangeRate(NextId(exchange_rates), base, r, now))
  /\ UNCHANGED <<tasks, cache, now, transactions, last, prev>>

Next ==
  \/ GetRates
  \/ GetExchangeRate
  \/ ConvertCurrency
  \/ Restart
  \/ Tick
  \/ SeedSnapshot

Spec ==
  Init /\ [][Next]_vars

\* the rate engine alone: calls of _get_rates
NextRates ==
  \/ GetRates
  \/ Restart
  \/ Tick
  \/ SeedSnapshot

SpecRates ==
  Init /\ [][NextRates]_vars

\* calls of get_exchange_rate, whatever the store holds
NextExchange ==
  \/ GetExchangeRate
  \/ Restart
  \/ SeedSnapshot

SpecExchange ==
  Init /\ [][NextExchange]_vars

\* calls of convert_currency
NextConvert ==
  \/ ConvertCurrency
  \/ Restart

SpecConvert ==
  Init /\ [][NextConvert]_vars

\* the two public operations together
NextCalls ==
  \/ GetExchangeRate
  \/ ConvertCurrency
  \/ Restart

SpecCalls ==
  Init /\ [][NextCalls]_vars

\* the snapshot store alone: saves and loads, other writers, time
NextStore ==
  \/ SaveRates
  \/ LoadRates
  \/ Tick
  \/ SeedSnapshot

SpecStore ==
  Init /\ [][NextStore]_vars

\* _get_rates calls one after the other, whatever the store holds
NextFallback ==
  \/ GetRatesAgain
  \/ SeedSnapshot

SpecFallback ==
  Init /\ [][NextFallback]_vars

\* concurrent callers of _get_rates on a new service
SpecTasks ==
  Init /\ [][Gather]_vars

----------------------------------------------------------------------------
(* Decimal.quantize(Decimal("0.01")) alone, as convert_currency applies it *)
(* at lines 59-61 under the context of rate_service.py:25, which sets the  *)
(* precision and leaves the rounding at the default of the decimal module. *)

\* the decimals of three places from 0.000 up
Thousandths ==
  {Decimal(c, -3) : c \in 0..MaxThousandths}

InitQuantize ==
  /\ cache = EmptyCache
  /\ now = 0
  /\ exchange_rates = <<>>
  /\ transactions = <<>>
  /\ last \in {[op |-> "Decimal", value |-> d] : d \in Thousandths}
  /\ prev = NoCall
  /\ tasks = [t \in Tasks |-> Created]

\* value.quantize(Decimal("0.01"))
Quantize ==
  /\ last.op = "Decimal"
  /\ last' = [op |-> "quantize", arg |-> last.value,
              result |-> quantize(last.value, 2)]
  /\ UNCHANGED <<tasks, cache, now, exchange_rates, transactions, prev>>

SpecQuantize ==
  InitQuantize /\ [][Quantize]_vars

----------------------------------------------------------------------------
(* Vocabulary of the properties                                            *)

\* the table a serving provider hands out, as the fetch converts it
ServedTable(p) ==
  _fecth_from_external_api(p).result.value

\* the failure a provider that is not serving makes of a fetch
FetchFailure(p) ==
  _fecth_from_external_api(p).result

\* the cache entry a fetch of the provider's table at time t makes
EntryOf(p, t) ==
  base_currency :> [rates |-> ServedTable(p), expires_at |-> t + ttl]

\* the rates of a persisted snapshot, deserialized
Deserialized(row) ==
  Dict([cur \in DOMAIN row.rates |-> DecimalOf(row.rates[cur])])

NoIO(call) ==
  call.http = 0 /\ call.reads = 0 /\ call.writes = 0

Supported(code) ==
  code \in SUPPORTED_CURRENCIES

\* the number c * 10^e is zero or negative: its coefficient is
NonPositive(d) ==
  ~(d.c > 0)

\* the call before the last one was a _get_rates call that found the cache
\* empty and the provider serving: the fetch of that call populates the cache
PrevFetched ==
  prev.op = "_get_rates" /\ prev.cache_before = EmptyCache

----------------------------------------------------------------------------
(* Properties                                                              *)

\* C1: after a _get_rates call whose fetch populated the cache, a _get_rates
\* call made before the entry expires returns the cached table and asks
\* neither the provider nor the store.
C1_FreshCacheServed ==
  (last.op = "_get_rates" /\ PrevFetched /\ last.at < prev.at + ttl)
    => /\ last.result = Return(ServedTable(prev.provider))
       /\ NoIO(last)

\* C2: a _get_rates call that finds no fresh entry while the provider serves
\* a table caches the table with expires_at = now + TTL, attempts to persist
\* one snapshot and returns the table.
C2_FetchCachedAndPersisted ==
  (/\ last.op = "_get_rates"
   /\ last.cache_before = EmptyCache
   /\ Serving(last.provider))
    => /\ last.result = Return(ServedTable(last.provider))
       /\ last.cache_after = EntryOf(last.provider, last.at)
       /\ last.writes = 1

\* C3: a _get_rates call whose fetch fails while the cache holds an entry
\* (made by the call before, expired or not) returns that entry's table and
\* does not read the store.
C3_StaleCacheServed ==
  (last.op = "_get_rates" /\ PrevFetched /\ ~Serving(last.provider))
    => /\ last.result = Return(ServedTable(prev.provider))
       /\ last.reads = 0

\* C4: a _get_rates call whose fetch fails, with no cache entry and a
\* snapshot of the base currency in the store, returns that snapshot's rates
\* as decimals.
C4_StoreFallbackServed ==
  (/\ last.op = "_get_rates"
   /\ ~Serving(last.provider)
   /\ last.cache_before = EmptyCache
   /\ last.db_up
   /\ last.candidates # {})
    => \E i \in last.candidates :
         last.result = Return(Deserialized(exchange_rates[i]))

\* C5: get_exchange_rate between two distinct supported currencies, with the
\* provider failing, no cache entry and no snapshot, fails with
\* ExternalAPIError wrapping the reason of the fetch failure.
C5_TotalFailure ==
  (/\ last.op = "get_exchange_rate"
   /\ last.from # last.to /\ Supported(last.from) /\ Supported(last.to)
   /\ ~Serving(last.provider)
   /\ last.cache_before = EmptyCache
   /\ last.candidates = {})
    => /\ last.result.kind = "raise"
       /\ last.result.exc = "ExternalAPIError"
       /\ last.result.cause = FetchFailure(last.provider).exc

\* C6: a _get_rates call that fetches the table while the database refuses
\* the snapshot still returns the table, and the cache holds the fresh entry.
C6_SaveFailureAbsorbed ==
  (/\ last.op = "_get_rates"
   /\ last.cache_before = EmptyCache
   /\ Serving(last.provider)
   /\ ~last.db_up)
    => /\ last.result.kind = "return"
       /\ last.result.value = ServedTable(last.provider)
       /\ base_currency \in DOMAIN cache
       /\ cache[base_currency].rates = ServedTable(last.provider)
       /\ last.at < cache[base_currency].expires_at

\* C7: get_exchange_rate(X, X) of a supported currency X returns exactly 1,
\* with no fetch, no store access and no change of the cache.
C7_SameCurrencyIsOne ==
  (/\ last.op = "get_exchange_rate"
   /\ last.from = last.to
   /\ Supported(last.from))
    => /\ last.result = Return(Decimal(1, 0))
       /\ NoIO(last)
       /\ last.cache_after = last.cache_before

\* C8: get_exchange_rate with a code outside the supported set fails with
\* InvalidCurrencyError naming the first such code, before any cache lookup,
\* fetch or store access.
C8_InvalidCurrencyRejected ==
  (/\ last.op = "get_exchange_rate"
   /\ ~(Supported(last.from) /\ Supported(last.to)))
    => /\ last.result =
            InvalidCurrencyError(IF Supported(last.from) THEN last.to
                                                          ELSE last.from)
       /\ NoIO(last)
       /\ last.cache_after = last.cache_before

\* C9: convert_currency with amount <= 0 fails with InvalidAmountError
\* carrying the amount, creates no transaction, and makes no rate lookup,
\* fetch or store write.
C9_NonPositiveAmountRejected ==
  (last.op = "convert_currency" /\ \E a \in last.amount : NonPositive(a))
    => /\ \E a \in last.amount : last.result = InvalidAmountError(a)
       /\ last.tx_after = last.tx_before
       /\ transactions = last.tx_before
       /\ last.lookups = 0
       /\ NoIO(last)

\* a call with amount zero was rejected with InvalidAmountError
C9_Witness ==
  /\ last.op = "convert_currency"
  /\ last.amount = {Decimal(0, -2)}
  /\ last.result.exc = "InvalidAmountError"

\* C10: convert_currency with a positive amount and an unsupported source or
\* target code fails with InvalidCurrencyError and creates no transaction.
C10_ConvertInvalidCurrency ==
  (/\ last.op = "convert_currency"
   /\ \E a \in last.amount : ~NonPositive(a)
   /\ ~(Supported(last.from) /\ Supported(last.to)))
    => /\ last.result.kind = "raise"
       /\ last.result.exc = "InvalidCurrencyError"
       /\ last.tx_after = last.tx_before

\* the call the step makes is a convert_currency call
ConvertStep ==
  last' # last /\ last'.op = "convert_currency"

\* the row the payload of a successful convert_currency call describes
RowOf(call, payload) ==
  [id |-> payload.transaction_id,
   user_id |-> call.user,
   source_currency |-> call.from,
   target_currency |-> call.to,
   source_amount |-> CHOOSE a \in call.amount : TRUE,
   target_amount |-> payload.to.amount,
   exchange_rate |-> payload.rate,
   timestamp |-> payload.timestamp]

DecEq(a, b) ==
  LET m == IF a.e < b.e THEN a.e ELSE b.e
  IN  a.c * Pow10(a.e - m) = b.c * Pow10(b.e - m)

\* the amount a convert_currency call was given
AmountOf(call) ==
  CHOOSE a \in call.amount : TRUE

\* the provider serves a table that quotes the currency at c * 10^e
Quotes(p, currency, c, e) ==
  /\ Serving(p)
  /\ currency \in DOMAIN ServedTable(p).items
  /\ DecEq(ServedTable(p).items[currency], Decimal(c, e))

\* C12: with base EUR and the provider serving USD 1.18 and EUR 1.0,
\* convert_currency(user, "USD", "EUR", 100.00) returns rate 0.85 and
\* converted amount 85.00 and creates exactly one transaction holding
\* exchange_rate 0.85 and target_amount 85.00.
C12_ConvertUsdToEur ==
  (/\ last.op = "convert_currency"
   /\ last.from = "USD" /\ last.to = "EUR"
   /\ last.amount = {Decimal(10000, -2)}
   /\ Quotes(last.provider, "USD", 118, -2)
   /\ Quotes(last.provider, "EUR", 1, 0)
   /\ last.db_up)
    => /\ last.result.kind = "return"
       /\ last.result.value.items.rate = Decimal(85, -2)
       /\ last.result.value.items.to.amount = Decimal(8500, -2)
       /\ Len(last.tx_after) = Len(last.tx_before) + 1
       /\ last.tx_after[Len(last.tx_after)].exchange_rate = Decimal(85, -2)
       /\ last.tx_after[Len(last.tx_after)].target_amount = Decimal(8500, -2)

\* the decimal has nine places and is units + billionths * 10^-9
NinePlaces(d, units, billionths) ==
  /\ d.e = -9
  /\ d.c \div Pow10(9) = units
  /\ d.c % Pow10(9) = billionths

\* C13: get_exchange_rate between two distinct supported currencies, with
\* the provider serving a table, returns a rate of nine decimal places: the
\* table's rate of the target when the source is the base currency, and
\* 109.788135593 for ("USD", "JPY") when the table quotes USD 1.18 and
\* JPY 129.55.
C13_CrossRate ==
  (/\ last.op = "get_exchange_rate"
   /\ last.from # last.to /\ Supported(last.from) /\ Supported(last.to)
   /\ Serving(last.provider))
    => /\ last.result.kind = "return"
       /\ last.result.value.t = "Decimal"
       /\ last.result.value.e = -9
       /\ last.from = base_currency
            => DecEq(last.result.value, ServedTable(last.provider).items[last.to])
       /\ (/\ last.from = "USD" /\ last.to = "JPY"
           /\ Quotes(last.provider, "USD", 118, -2)
           /\ Quotes(last.provider, "JPY", 12955, -2))
            => NinePlaces(last.result.value, 109, 788135593)

\* C14: quantizing to two places a decimal whose third decimal digit is 5,
\* with nothing after it, gives the higher cent: 0.125 becomes 0.13 and
\* 2.345 becomes 2.35.
C14_HalfUp ==
  (last.op = "quantize" /\ last.arg.e = -3 /\ last.arg.c % 10 = 5)
    => last.result = Decimal(last.arg.c \div 10 + 1, -2)

\* C15: convert_currency(user, X, X, amount) of a supported currency X and a
\* positive amount, with the database up and whatever the provider does,
\* returns rate 1 and the amount itself, creates one transaction and sends
\* the provider no request.
C15_ConvertSameCurrency ==
  (/\ last.op = "convert_currency"
   /\ last.from = last.to /\ Supported(last.from)
   /\ ~NonPositive(AmountOf(last))
   /\ last.db_up)
    => /\ last.result.kind = "return"
       /\ DecEq(last.result.value.items.rate, Decimal(1, 0))
       /\ DecEq(last.result.value.items.to.amount, AmountOf(last))
       /\ Len(last.tx_after) = Len(last.tx_before) + 1
       /\ last.http = 0

\* the failures the operations are specified to end with
TypedFailures ==
  {"InvalidCurrencyError", "InvalidAmountError", "ExternalAPIError",
   "SQLAlchemyError"}

\* C16: every get_exchange_rate or convert_currency call ends with a payload
\* or with InvalidCurrencyError, InvalidAmountError, ExternalAPIError or a
\* persistence error.
C16_OnlyTypedFailures ==
  last.op \in {"get_exchange_rate", "convert_currency"}
    => \/ last.result.kind = "return"
       \/ last.result.exc \in TypedFailures

\* C17: convert_currency with a positive amount and a rate to be had (the
\* same supported currency twice, or two supported currencies and the
\* provider serving), while the database refuses the insert, fails with the
\* persistence error and leaves no row in the transactions table.
C17_InsertFailure ==
  (/\ last.op = "convert_currency"
   /\ ~NonPositive(AmountOf(last))
   /\ Supported(last.from) /\ Supported(last.to)
   /\ last.from = last.to \/ Serving(last.provider)
   /\ ~last.db_up)
    => /\ last.result.kind = "raise"
       /\ last.result.exc = "SQLAlchemyError"
       /\ last.tx_after = last.tx_before
       /\ transactions = last.tx_before

\* the task ran, found no cache entry and had the provider serving
MissedAndServed(task) ==
  /\ task.pc = "done"
  /\ task.cache_before = EmptyCache
  /\ Serving(task.provider)

\* C18: of the _get_rates coroutines run together, each one that finds no
\* cache entry while the provider serves returns the table of its fetch; the
\* cache is empty or holds the whole entry of one task's fetch; and when
\* all of them have finished the entry is that of the task that finished
\* last.
C18_ConcurrentMisses ==
  /\ \A t \in Tasks :
       MissedAndServed(tasks[t])
         => tasks[t].result = Return(ServedTable(tasks[t].provider))
  /\ \/ cache = EmptyCache
     \/ \E t \in Tasks :
          /\ MissedAndServed(tasks[t])
          /\ cache = EntryOf(tasks[t].provider, now)
  /\ (\A t \in Tasks : MissedAndServed(tasks[t]))
       => \E t \in Tasks :
            /\ tasks[t].seq = MaxTasks
            /\ cache = EntryOf(tasks[t].provider, now)

\* the two tables have the same currency codes and decimal-equal rates
SameTable(a, b) ==
  /\ a.t = "dict" /\ b.t = "dict"
  /\ DOMAIN a.items = DOMAIN b.items
  /\ \A cur \in DOMAIN a.items : DecEq(a.items[cur], b.items[cur])

\* C19: a _get_rates_from_db call made right after a _save_rates_to_db call
\* that the database committed, and that finds the row just saved, returns
\* a table with the currency codes and the rates of the table saved.
C19_SaveLoadRoundTrip ==
  (/\ last.op = "_get_rates_from_db" /\ last.db_up
   /\ prev.op = "_save_rates_to_db" /\ prev.db_up
   /\ last.first = Len(prev.rows))
    => SameTable(last.result, prev.rates)

\* the rows of the configured base currency that no other such row is
\* later than
Latest(rows) ==
  {i \in 1..Len(rows) :
     /\ rows[i].base_currency = EXCHANGE_RATE_API_BASE_CURRENCY
     /\ \A j \in 1..Len(rows) :
          rows[j].base_currency = EXCHANGE_RATE_API_BASE_CURRENCY
            => rows[j].last_updated <= rows[i].last_updated}

\* C20: a _get_rates_from_db call that the database answers yields the
\* rates of a snapshot of the configured base currency with the greatest
\* last_updated, whatever snapshots of other base currencies there are, and
\* None when the table holds no snapshot of that base currency.
C20_LatestSnapshotOfBase ==
  (last.op = "_get_rates_from_db" /\ last.db_up)
    => IF Latest(last.rows) = {}
         THEN last.result = None
         ELSE \E i \in Latest(last.rows) :
                last.result = Deserialized(last.rows[i])

\* the call found an entry of the base currency that had not expired
FoundFresh(call) ==
  /\ EXCHANGE_RATE_API_BASE_CURRENCY \in DOMAIN call.cache_before
  /\ call.at < call.cache_before[EXCHANGE_RATE_API_BASE_CURRENCY].expires_at

\* a _get_rates call that found no fresh entry while the provider was failing
FailedFetch(call) ==
  call.op = "_get_rates" /\ ~Serving(call.provider) /\ ~FoundFresh(call)

\* what the caller and the service are left with
Outcome(call) ==
  [kind |-> call.result.kind, exc |-> call.result.exc,
   value |-> call.result.value, reads |-> call.reads,
   writes |-> call.writes, cache |-> call.cache_after]

\* the two calls met the same cache and the same store
SameState(a, b) ==
  /\ a.cache_before = b.cache_before
  /\ a.candidates = b.candidates
  /\ a.db_up = b.db_up
  /\ a.first = b.first

Within(x, y, ulps) ==
  LET m == IF x.e < y.e THEN x.e ELSE y.e
      d == x.c * Pow10(x.e - m) - y.c * Pow10(y.e - m)
  IN  (IF d < 0 THEN -d ELSE d) * Pow10(9 + m) <= ulps

\* C22: for supported currencies A and B, distinct from each other and from
\* the base currency, and the provider serving a table, the calls
\* get_exchange_rate(A, B), get_exchange_rate(A, base) and
\* get_exchange_rate(B, base) return rates, and the first is the second
\* divided by the reciprocal of the third, to within the rounding of nine
\* decimal places.
C22_Triangulation ==
  (/\ last.op = "get_exchange_rate"
   /\ Supported(last.from) /\ Supported(last.to)
   /\ Cardinality({last.from, last.to, EXCHANGE_RATE_API_BASE_CURRENCY}) = 3
   /\ Serving(last.provider))
    => LET ab == last.result
           a == get_exchange_rate(last.from, EXCHANGE_RATE_API_BASE_CURRENCY)
           b == get_exchange_rate(last.to, EXCHANGE_RATE_API_BASE_CURRENCY)
           one == Return(Decimal(1, 0))
       IN  /\ ab.kind = "return" /\ a.kind = "return" /\ b.kind = "return"
           /\ Within(ab.value, Divide(a, Divide(one, b)).value, 2)

\* a _get_rates call that found the cache empty while the provider was
\* failing
FellToStore(call) ==
  FailedFetch(call) /\ call.cache_before = EmptyCache

\* C23: a _get_rates call whose fetch fails, with no cache entry and the
\* store failing the read, fails with ExternalAPIError (status 503) and
\* leaves the cache as it was; its result is the result of such a call that
\* the store answered with no snapshot of the base currency.
C23_StoreReadFailureAbsorbed ==
  /\ (FellToStore(last) /\ ~last.db_up)
       => /\ last.result.kind = "raise"
          /\ last.result.exc = "ExternalAPIError"
          /\ last.result.status_code = 503
          /\ last.cache_after = last.cache_before
  /\ (/\ FellToStore(last) /\ ~last.db_up
      /\ FellToStore(prev) /\ prev.db_up /\ prev.candidates = {}
      /\ prev.provider = last.provider)
       => last.result = prev.result

\* a call read an empty store; a snapshot of the base currency was added;
\* the next call, the provider failing alike, had its read of the store fail
C23_Witness ==
  /\ FellToStore(last) /\ ~last.db_up /\ last.candidates # {}
  /\ FellToStore(prev) /\ prev.db_up /\ prev.candidates = {}
  /\ prev.provider = last.provider
  /\ last.result.exc = "ExternalAPIError"

\* the step is a _get_rates call
GetRatesStep ==
  last' # last /\ last'.op = "_get_rates"

\* the rows of the first table are the first rows of the second
IsPrefix(rows, more) ==
  Len(rows) <= Len(more) /\ \A k \in 1..Len(rows) : more[k] = rows[k]

\* C24: a _get_rates call changes no existing snapshot; it adds exactly one
\* when it finds no fresh entry, the provider serves a table and the database
\* accepts the save, and none in any other situation.
C24_SnapshotsAccumulate ==
  [][GetRatesStep =>
       /\ IsPrefix(exchange_rates, exchange_rates')
       /\ IF ~FoundFresh(last') /\ Serving(last'.provider) /\ last'.db_up
            THEN Len(exchange_rates') = Len(exchange_rates) + 1
            ELSE exchange_rates' = exchange_rates]_vars

\* C25: once a _get_rates call has been made on the service while the
\* provider was serving, the cache holds an entry of the base currency, and
\* the _get_rates call after it returns a table and does not read the
\* store, whatever the provider does then.
C25_EntryStays ==
  prev.op = "_get_rates"
    => /\ EXCHANGE_RATE_API_BASE_CURRENCY \in DOMAIN cache
       /\ last.op = "_get_rates"
            => /\ last.result.kind = "return"
               /\ last.reads = 0

\* C26: a _get_rates call that finds no fresh entry while the provider is
\* failing sends the provider one request, leaves the cache as it was
\* (the entry and its expires_at) and attempts no save.
C26_FailedFetchFrame ==
  FailedFetch(last)
    => /\ last.cache_after = last.cache_before
       /\ cache = last.cache_before
       /\ last.writes = 0
       /\ last.http = 1

\* C27: a _get_rates call whose fetch fails, with no cache entry and a
\* snapshot of the base currency in the store, returns a table and leaves
\* the cache empty; the next _get_rates call finds the cache empty and, its
\* fetch failing too, reads the store again.
C27_FallbackNotCached ==
  (/\ FellToStore(prev) /\ prev.db_up /\ prev.candidates # {}
   /\ last.op = "_get_rates")
    => /\ prev.result.kind = "return"
       /\ prev.cache_after = EmptyCache
       /\ last.cache_before = EmptyCache
       /\ ~Serving(last.provider) => last.reads = 1

\* C28: convert_currency with amount <= 0 and an unsupported source or
\* target code fails with InvalidAmountError, not InvalidCurrencyError, and
\* asks the rate service nothing.
C28_AmountCheckedFirst ==
  (/\ last.op = "convert_currency"
   /\ NonPositive(AmountOf(last))
   /\ ~(Supported(last.from) /\ Supported(last.to)))
    => /\ last.result.kind = "raise"
       /\ last.result.exc = "InvalidAmountError"
       /\ last.lookups = 0
       /\ last.http = 0 /\ last.reads = 0

\* a call with a negative amount and an unsupported source code was
\* rejected for its amount
C28_Witness ==
  /\ last.op = "convert_currency"
  /\ last.amount = {Decimal(-10000, -2)}
  /\ last.from = "XXX"
  /\ last.result.exc = "InvalidAmountError"

====
